---- MODULE Spec2Model ----
(***************************************************************************)
(* Model of control_server/router/router.py: the /v2/cmdstream WebSocket   *)
(* handler, the CRUD handlers that call the configured driver, and the     *)
(* module-level state (_driver, _empty_motion).                            *)
(*                                                                         *)
(* The server is a gevent WSGIServer: every request runs its handler in a  *)
(* greenlet of its own, and a greenlet runs until it waits on I/O          *)
(* (wsock.receive, wsock.send, a driver call that talks to the device).    *)
(* An action below is therefore the code of a handler from one such wait   *)
(* to the next.                                                            *)
(***************************************************************************)
EXTENDS Integers, Sequences, FiniteSets, TLC

\* ------------------------------------------------------------------ bounds
NumSessions == 2      \* clients that open /v2/cmdstream
NumRequests == 2      \* CRUD requests
MaxWork     == 4      \* requests arrived plus stream messages received
MaxSlot     == 1      \* motion slots 0..MaxSlot
NumDrivers  == 2      \* AbstractDriver instances that exist

Sessions == 1..NumSessions
Requests == 1..NumRequests
Slots    == 0..MaxSlot

\* The driver instances, and the objects a caller may pass to set_driver:
\* the instances and, as 0, an object that is no AbstractDriver.
Drivers  == 1..NumDrivers
Objects  == 0..NumDrivers

\* ------------------------------------------------------- wire messages
\* A message is a sequence of characters; a run of characters other than
\* the separator is written as one element.
Slash == "/"

\* wsock.receive() returns None once the client has closed the socket.
None == <<"None">>

Messages ==
  { <<"play", Slash, "3">>,        \* play/3
    <<"stop">>,                    \* stop
    <<"disconnect">>,              \* disconnect
    <<"fooBar", Slash, "1">>,      \* fooBar/1 : no such attribute
    <<"__repr__">>,                \* a built-in method of every object
    <<"__doc__">>,                 \* a built-in attribute that is no method
    <<"play">> }                   \* play without its argument

\* str.split('/'): the fields between separators, at least one field.
RECURSIVE Split(_)
Split(m) ==
  IF m = <<>> THEN << <<>> >>
  ELSE LET rest == Split(Tail(m)) IN
       IF Head(m) = Slash
         THEN << <<>> >> \o rest
         ELSE << <<Head(m)>> \o Head(rest) >> \o Tail(rest)

\* The text of a field: the concatenation of its runs ("" for no run).
FieldText(f) ==
  IF f = <<>> THEN "" ELSE IF Len(f) = 1 THEN f[1] ELSE "<joined>"

\* Python values that cross the driver interface.
PyTrue   == [type |-> "bool", val |-> "1"]
PyFalse  == [type |-> "bool", val |-> "0"]
PyStr(t) == [type |-> "str",  val |-> t]
PyDict   == [type |-> "dict", val |-> "{}"]
Raise    == [type |-> "exception", val |-> "raised"]
Pending  == [type |-> "pending", val |-> ""]

\* Variant of Truthy: the test "is not None" instead of truthiness.
Truthy_NotNone(v) == v.type # "none"

\* bool(value), as the if statement applies it.
Truthy(v) ==
  IF v.type = "bool" THEN v.val = "1" ELSE v.val \notin { "", "{}" }

\* Variant of Str: the JSON spelling of a boolean.
Str_Json(v) ==
  IF v.type = "bool" THEN (IF v.val = "1" THEN "true" ELSE "false")
  ELSE v.val

\* str(result) of a Python value.
Str(v) ==
  IF v.type = "bool" THEN (IF v.val = "1" THEN "True" ELSE "False")
  ELSE v.val

\* ------------------------------------------------------------ the driver
\* The operations of the driver with the number of arguments each takes.
OpArity ==
  [ connect |-> 0, disconnect |-> 0, getMotion |-> 1, install |-> 1,
    play |-> 1, stop |-> 0, getVersionInformation |-> 0, upload |-> 1,
    setHome |-> 2, applyDiff |-> 2, apply |-> 2 ]

DocumentedOps == DOMAIN OpArity

\* Members every Python object has besides its operations: __repr__ is
\* callable without arguments, __doc__ is not callable.
BuiltinCallable == { "__repr__" }
BuiltinData     == { "__doc__" }

\* getattr(_driver, name) succeeds for every attribute of the object.
HasAttr(name) == name \in DocumentedOps \cup BuiltinCallable \cup BuiltinData

IsCallable(name) == name \in DocumentedOps \cup BuiltinCallable

Arity(name) == IF name \in DocumentedOps THEN OpArity[name] ELSE 0

\* What a completed call may return; Raise stands for an exception.
Returns(name) ==
  IF name = "__repr__" THEN { PyStr("<driver>") }
  ELSE IF name \in { "getMotion", "getVersionInformation" } THEN { PyDict }
  ELSE IF name \in { "play", "connect" } THEN { PyTrue, PyFalse }
  ELSE { PyTrue }

Outcomes(name) == Returns(name) \cup { Raise }

\* ------------------------------------------------------------------ state
VARIABLES
  driver,      \* _driver: the configured driver instance
  setArgs,     \* the arguments set_driver has been called with, in order
  emptySlot,   \* _empty_motion['slot']
  sess,        \* one record per invocation of cmdstream
  crud         \* one record per CRUD request

vars == << driver, setArgs, emptySlot, sess, crud >>

NewSession ==
  [ pc        |-> "idle",     \* position of the handler
    wsock     |-> FALSE,      \* the request carries wsgi.websocket
    status    |-> "none",     \* how the request ended
    contended |-> FALSE,      \* another session was streaming at the open
    eof       |-> FALSE,      \* receive() has returned None
    recv      |-> <<>>,       \* messages received, in order
    sent      |-> <<>>,       \* replies sent, in order
    calls     |-> <<>>,       \* driver members invoked by dispatch
    nconn     |-> 0,          \* calls of _driver.connect() (line 107)
    conn      |-> Pending,    \* what _driver.connect() returned
    ndisc     |-> 0,          \* calls of _driver.disconnect() (line 118)
    nlog      |-> 0,          \* entries written to _LOGGER
    drv       |-> 0,          \* instance of the call in progress
    cdrv      |-> 0 ]         \* instance connect() was called on

NewRequest ==
  [ pc |-> "idle", handler |-> "none", slot |-> 0, op |-> "none",
    arg |-> [kind |-> "none", slot |-> 0], res |-> Pending, drv |-> 0 ]

Init ==
  /\ driver = 1
  /\ setArgs = <<>>
  /\ emptySlot = 0
  /\ sess = [s \in Sessions |-> NewSession]
  /\ crud = [r \in Requests |-> NewRequest]

\* The session states of the protocol, read off the handler's position.
Streaming(s)  == sess[s].pc \in { "receiving", "invoking", "sending" }
Connecting(s) == sess[s].pc = "connecting"
Closed(s)     == sess[s].pc = "closed"

\* A call of the session or request is executing in the driver.
SessionInCall(s) == sess[s].pc \in { "connecting", "invoking", "disconnecting" }
RequestInCall(r) == crud[r].pc = "calling"

RECURSIVE SumRecv(_)
SumRecv(S) ==
  IF S = {} THEN 0
  ELSE LET s == CHOOSE x \in S : TRUE IN Len(sess[s].recv) + SumRecv(S \ {s})

\* What the server has been given so far: the requests that arrived, of
\* either kind, the messages received on the command streams, and the
\* calls of set_driver.
Work ==
  Cardinality({ s \in Sessions : sess[s].pc # "idle" })
  + Cardinality({ r \in Requests : crud[r].pc # "idle" })
  + SumRecv(Sessions)
  + Len(setArgs)

\* ------------------------------------------------------------- cmdstream
\* Variant of ExceptPath: the except clause logs and breaks without
\* calling _driver.disconnect().
ExceptPath_NoDisconnect(rec) ==
  [rec EXCEPT !.pc = "closed", !.status = "returned", !.nlog = @ + 1]

\* Variant of ExceptPath: the except clause logs and goes on with the loop.
ExceptPath_Continue(rec) ==
  [rec EXCEPT !.pc = "receiving", !.nlog = @ + 1]

\* Lines 115-118: the except clause logs and starts _driver.disconnect().
ExceptPath(rec) ==
  [rec EXCEPT !.pc = "disconnecting", !.nlog = @ + 1, !.ndisc = @ + 1,
              !.drv = driver]

\* Variant of Dispatch: a message that names no attribute is skipped.
Dispatch_SkipUnknown(rec, m) ==
  LET messages == Split(m)
      name     == FieldText(messages[1])
      args     == Tail(messages)
      got      == [rec EXCEPT !.recv = Append(@, m)]
  IN IF ~HasAttr(name) THEN got
     ELSE IF ~IsCallable(name) THEN ExceptPath(got)
     ELSE IF Len(args) # Arity(name) THEN ExceptPath(got)
     ELSE [got EXCEPT !.pc = "invoking", !.drv = driver,
                      !.calls = Append(@, [idx |-> Len(got.recv),
                                           op |-> name, args |-> args,
                                           res |-> Pending])]

\* Line 111: getattr(_driver, messages[0])(*messages[1:]) up to the point
\* where the member starts to run, after the message m has been received.
Dispatch(rec, m) ==
  LET messages == Split(m)
      name     == FieldText(messages[1])
      args     == Tail(messages)
      got      == [rec EXCEPT !.recv = Append(@, m)]
  IN IF ~HasAttr(name) THEN ExceptPath(got)               \* AttributeError
     ELSE IF ~IsCallable(name) THEN ExceptPath(got)       \* TypeError
     ELSE IF Len(args) # Arity(name) THEN ExceptPath(got) \* TypeError
     ELSE [got EXCEPT !.pc = "invoking", !.drv = driver,
                      !.calls = Append(@, [idx |-> Len(got.recv),
                                           op |-> name, args |-> args,
                                           res |-> Pending])]

\* Variant of Open: the error is logged but the request is not aborted,
\* and the handler goes on to connect.
Open_NoAbort(s, ws) ==
  /\ sess[s].pc = "idle"
  /\ Work < MaxWork
  /\ sess' = [sess EXCEPT ![s] =
       [@ EXCEPT !.pc = "connecting", !.wsock = ws,
                 !.nlog = IF ws THEN @ ELSE @ + 1,
                 !.nconn = @ + 1, !.drv = driver, !.cdrv = driver,
                 !.contended = \E t \in Sessions \ {s} : Streaming(t)]]
  /\ UNCHANGED << driver, setArgs, emptySlot, crud >>

\* Lines 100-107: the request arrives; ws says whether it is a WebSocket.
Open(s, ws) ==
  /\ sess[s].pc = "idle"
  /\ Work < MaxWork
  /\ sess' = [sess EXCEPT ![s] =
       IF ~ws
         THEN [@ EXCEPT !.pc = "closed", !.status = "400", !.nlog = @ + 1]
         ELSE [@ EXCEPT !.pc = "connecting", !.wsock = TRUE,
                        !.nconn = @ + 1,
                        !.drv = driver, !.cdrv = driver,
                        !.contended = \E t \in Sessions \ {s} : Streaming(t)]]
  /\ UNCHANGED << driver, setArgs, emptySlot, crud >>

\* Lines 107, 121-124: _driver.connect() completes with outcome out.
ConnectReturn(s, out) ==
  /\ sess[s].pc = "connecting"
  /\ out \in Outcomes("connect")
  /\ sess' = [sess EXCEPT ![s] =
       IF out = Raise
         THEN [@ EXCEPT !.pc = "closed", !.status = "unhandled", !.conn = out]
       ELSE IF Truthy(out)
         THEN [@ EXCEPT !.pc = "receiving", !.conn = out]
       ELSE [@ EXCEPT !.pc = "closed", !.status = "404", !.nlog = @ + 1,
                      !.conn = out]]
  /\ UNCHANGED << driver, setArgs, emptySlot, crud >>

\* Lines 110-111: receive() returns a message, which is split and
\* dispatched.
Receive(s, m) ==
  /\ sess[s].pc = "receiving"
  /\ m \in Messages
  /\ Work < MaxWork
  /\ sess' = [sess EXCEPT ![s] = Dispatch(@, m)]
  /\ UNCHANGED << driver, setArgs, emptySlot, crud >>

\* Variant of ReceiveNone: a receive() that returns None is ignored and
\* the loop goes on.
ReceiveNone_Ignore(s) ==
  /\ sess[s].pc = "receiving"
  /\ sess' = [sess EXCEPT ![s] = [@ EXCEPT !.eof = TRUE]]
  /\ UNCHANGED << driver, setArgs, emptySlot, crud >>

\* Line 110: receive() returns None (the client closed the socket), and
\* None.split raises AttributeError.
ReceiveNone(s) ==
  /\ sess[s].pc = "receiving"
  /\ sess' = [sess EXCEPT ![s] = ExceptPath([@ EXCEPT !.eof = TRUE])]
  /\ UNCHANGED << driver, setArgs, emptySlot, crud >>

\* The result of the last call.
LastRes(calls) == calls[Len(calls)].res

SetLastRes(calls, v) == [calls EXCEPT ![Len(calls)].res = v]

\* Line 111: the invoked member completes with outcome out.
InvokeReturn(s, out) ==
  /\ sess[s].pc = "invoking"
  /\ out \in Outcomes(sess[s].calls[Len(sess[s].calls)].op)
  /\ sess' = [sess EXCEPT ![s] =
       IF out = Raise
         THEN ExceptPath([@ EXCEPT !.calls = SetLastRes(@, Raise)])
         ELSE [@ EXCEPT !.pc = "sending", !.calls = SetLastRes(@, out)]]
  /\ UNCHANGED << driver, setArgs, emptySlot, crud >>

\* Variant of SendReply: a falsy result is not sent.
SendReply_SkipFalsy(s, ok) ==
  /\ sess[s].pc = "sending"
  /\ sess' = [sess EXCEPT ![s] =
       IF ~ok THEN ExceptPath(@)
       ELSE IF Truthy(LastRes(sess[s].calls))
         THEN [@ EXCEPT !.pc = "receiving",
                        !.sent = Append(@, Str(LastRes(sess[s].calls)))]
       ELSE [@ EXCEPT !.pc = "receiving"]]
  /\ UNCHANGED << driver, setArgs, emptySlot, crud >>

\* Line 113: wsock.send(str(result)); ok is FALSE when the write fails.
SendReply(s, ok) ==
  /\ sess[s].pc = "sending"
  /\ sess' = [sess EXCEPT ![s] =
       IF ok
         THEN [@ EXCEPT !.pc = "receiving",
                        !.sent = Append(@, Str(LastRes(sess[s].calls)))]
         ELSE ExceptPath(@)]
  /\ UNCHANGED << driver, setArgs, emptySlot, crud >>

\* Lines 118-120: _driver.disconnect() completes and the loop is left.
DisconnectReturn(s, out) ==
  /\ sess[s].pc = "disconnecting"
  /\ out \in Outcomes("disconnect")
  /\ sess' = [sess EXCEPT ![s] =
       [@ EXCEPT !.pc = "closed",
                 !.status = IF out = Raise THEN "unhandled" ELSE "returned"]]
  /\ UNCHANGED << driver, setArgs, emptySlot, crud >>

\* ------------------------------------------------------- CRUD handlers
NoArg         == [kind |-> "none",  slot |-> 0]
SlotArg(n)    == [kind |-> "slot",  slot |-> n]
BodyArg(n)    == [kind |-> "body",  slot |-> n]
EmptyArg(n)   == [kind |-> "empty", slot |-> n]
BytesArg      == [kind |-> "bytes", slot |-> 0]

\* A handler under enable_cors starts its one driver call.
StartCall(r, h, op, arg) ==
  crud' = [crud EXCEPT ![r] = [@ EXCEPT !.pc = "calling", !.handler = h,
                                        !.op = op, !.arg = arg,
                                        !.drv = driver]]

\* The same for a handler of a route with <SLOT:int>.
StartCallAt(r, h, SLOT, op, arg) ==
  crud' = [crud EXCEPT ![r] = [@ EXCEPT !.pc = "calling", !.handler = h,
                                        !.slot = SLOT, !.op = op,
                                        !.arg = arg, !.drv = driver]]

\* Variant of SetSlot: the slot is written only into a record that has
\* none yet (slot 0).
SetSlot_Once(slot, SLOT) == IF slot = 0 THEN SLOT ELSE slot

\* Line 155: _empty_motion['slot'] = SLOT, on the record's slot field.
SetSlot(slot, SLOT) == SLOT

\* Lines 42-44: an OPTIONS request gets the headers and no handler call.
Options(r) ==
  /\ crud[r].pc = "idle"
  /\ Work < MaxWork
  /\ crud' = [crud EXCEPT ![r] = [@ EXCEPT !.pc = "done"]]
  /\ UNCHANGED << driver, setArgs, emptySlot, sess >>

motion_get(r, SLOT) ==
  /\ crud[r].pc = "idle"
  /\ Work < MaxWork
  /\ StartCallAt(r, "motion_get", SLOT, "getMotion", SlotArg(SLOT))
  /\ UNCHANGED << driver, setArgs, emptySlot, sess >>

motion_delete(r, SLOT) ==
  /\ crud[r].pc = "idle"
  /\ Work < MaxWork
  /\ emptySlot' = SetSlot(emptySlot, SLOT)
  /\ StartCallAt(r, "motion_delete", SLOT, "install", EmptyArg(emptySlot'))
  /\ UNCHANGED << driver, setArgs, sess >>

\* request.json: a motion record whose slot field is bodySlot.
motion_put(r, SLOT, bodySlot) ==
  /\ crud[r].pc = "idle"
  /\ Work < MaxWork
  /\ StartCallAt(r, "motion_put", SLOT, "install", BodyArg(bodySlot))
  /\ UNCHANGED << driver, setArgs, emptySlot, sess >>

motion_play(r, SLOT) ==
  /\ crud[r].pc = "idle"
  /\ Work < MaxWork
  /\ StartCallAt(r, "motion_play", SLOT, "play", SlotArg(SLOT))
  /\ UNCHANGED << driver, setArgs, emptySlot, sess >>

motion_stop(r) ==
  /\ crud[r].pc = "idle"
  /\ Work < MaxWork
  /\ StartCall(r, "motion_stop", "stop", NoArg)
  /\ UNCHANGED << driver, setArgs, emptySlot, sess >>

version_get(r) ==
  /\ crud[r].pc = "idle"
  /\ Work < MaxWork
  /\ StartCall(r, "version_get", "getVersionInformation", NoArg)
  /\ UNCHANGED << driver, setArgs, emptySlot, sess >>

\* Lines 251-268: the metadata are constants; no driver call.
metadata_get(r) ==
  /\ crud[r].pc = "idle"
  /\ Work < MaxWork
  /\ crud' = [crud EXCEPT ![r] = [@ EXCEPT !.pc = "done", !.res = PyDict]]
  /\ UNCHANGED << driver, setArgs, emptySlot, sess >>

connect(r) ==
  /\ crud[r].pc = "idle"
  /\ Work < MaxWork
  /\ StartCall(r, "connect", "connect", NoArg)
  /\ UNCHANGED << driver, setArgs, emptySlot, sess >>

disconnect(r) ==
  /\ crud[r].pc = "idle"
  /\ Work < MaxWork
  /\ StartCall(r, "disconnect", "disconnect", NoArg)
  /\ UNCHANGED << driver, setArgs, emptySlot, sess >>

upload(r) ==
  /\ crud[r].pc = "idle"
  /\ Work < MaxWork
  /\ StartCall(r, "upload", "upload", BytesArg)
  /\ UNCHANGED << driver, setArgs, emptySlot, sess >>

\* The driver call of a CRUD handler completes; the handler returns the
\* response built from the result, or the exception leaves the handler.
\* Nothing of the request but its response remains.
CrudReturn(r, out) ==
  /\ crud[r].pc = "calling"
  /\ out \in Outcomes(crud[r].op)
  /\ crud' = [crud EXCEPT ![r] = [NewRequest EXCEPT !.pc = "done", !.res = out]]
  /\ UNCHANGED << driver, setArgs, emptySlot, sess >>

\* ------------------------------------------------------------ set_driver
\* isinstance(driver, AbstractDriver)
IsAbstractDriver(d) == d \in Drivers

\* Variant of Configured: the argument is stored whatever it is.
Configured_Unchecked(cur, d) == d

\* Lines 340-341: the value of _driver after set_driver(d).
Configured(cur, d) == IF IsAbstractDriver(d) THEN d ELSE cur

\* Lines 331-341.
set_driver(d) ==
  /\ Work < MaxWork
  /\ driver' = Configured(driver, d)
  /\ setArgs' = Append(setArgs, d)
  /\ UNCHANGED << emptySlot, sess, crud >>

\* ---------------------------------------------------------- specification
\* The steps of the command-stream sessions.
NextStream ==
  \/ \E s \in Sessions, ws \in BOOLEAN : Open(s, ws)
  \/ \E s \in Sessions, out \in Outcomes("connect") : ConnectReturn(s, out)
  \/ \E s \in Sessions, m \in Messages : Receive(s, m)
  \/ \E s \in Sessions : ReceiveNone(s)
  \/ \E s \in Sessions, out \in { PyTrue, PyFalse, PyDict, PyStr("<driver>"), Raise } :
        InvokeReturn(s, out)
  \/ \E s \in Sessions, ok \in BOOLEAN : SendReply(s, ok)
  \/ \E s \in Sessions, out \in Outcomes("disconnect") : DisconnectReturn(s, out)

\* The steps of the CRUD requests.
NextCrud ==
  \/ \E r \in Requests : Options(r)
  \/ \E r \in Requests, SLOT \in Slots : motion_get(r, SLOT)
  \/ \E r \in Requests, SLOT \in Slots : motion_delete(r, SLOT)
  \/ \E r \in Requests, SLOT \in Slots, b \in Slots : motion_put(r, SLOT, b)
  \/ \E r \in Requests, SLOT \in Slots : motion_play(r, SLOT)
  \/ \E r \in Requests : motion_stop(r)
  \/ \E r \in Requests : version_get(r)
  \/ \E r \in Requests : metadata_get(r)
  \/ \E r \in Requests : connect(r)
  \/ \E r \in Requests : disconnect(r)
  \/ \E r \in Requests : upload(r)
  \/ \E r \in Requests, out \in { PyTrue, PyFalse, PyDict, Raise } : CrudReturn(r, out)

\* The calls of set_driver.
NextDriver == \E d \in Objects : set_driver(d)

Next == NextStream \/ NextCrud

\* Sessions and CRUD requests together.
Spec == Init /\ [][Next]_vars

\* The CRUD requests alone.
SpecCrud == Init /\ [][NextCrud]_vars

\* The command-stream sessions alone.
SpecStream == Init /\ [][NextStream]_vars

\* The command-stream sessions, with set_driver called at any time.
SpecStreamDriver == Init /\ [][NextStream \/ NextDriver]_vars

\* The calls of set_driver alone.
SpecDriver == Init /\ [][NextDriver]_vars

\* The command-stream sessions alone, where a disconnect() call that the
\* except clause has started completes (it returns or raises) and the
\* handler's greenlet is resumed.
FairStream ==
  /\ SpecStream
  /\ \A s \in Sessions :
       WF_vars(\E out \in Outcomes("disconnect") : DisconnectReturn(s, out))

\* =================================================================
\* Properties
\* =================================================================

\* The session has been in Streaming: it is there, or it is leaving it, or
\* it closed after receive() returned (a message or None).
ReachedStreaming(s) ==
  \/ Streaming(s)
  \/ sess[s].pc = "disconnecting"
  \/ Closed(s) /\ (sess[s].eof \/ sess[s].recv # <<>>)

\* The method name and the arguments a message carries.
MethodOf(m) == FieldText(Split(m)[1])
ArgsOf(m)   == Tail(Split(m))

\* The invocations dispatch made for the i-th message of session s.
CallsFor(s, i) == { k \in DOMAIN sess[s].calls : sess[s].calls[k].idx = i }

\* The i-th command of session s raised while being resolved or invoked.
Failed(rec, i) ==
  \/ ~HasAttr(MethodOf(rec.recv[i]))
  \/ ~IsCallable(MethodOf(rec.recv[i]))
  \/ Len(ArgsOf(rec.recv[i])) # Arity(MethodOf(rec.recv[i]))
  \/ \E k \in DOMAIN rec.calls : rec.calls[k].idx = i /\ rec.calls[k].res = Raise

\* All calls of disconnect() session s has made: the handler's own (line
\* 118) and the dispatched ones.
DisconnectCalls(s) ==
  sess[s].ndisc
  + Cardinality({ k \in DOMAIN sess[s].calls : sess[s].calls[k].op = "disconnect" })

\* The messages of session s that are the command "disconnect".
DisconnectCmds(s) ==
  { i \in DOMAIN sess[s].recv : sess[s].recv[i] = <<"disconnect">> }

\* ------------------------------------------------------------------- C1
\* C1: in every reachable state at most one command-stream session is in
\* the Streaming state.
C1_AtMostOneStreaming ==
  Cardinality({ s \in Sessions : Streaming(s) }) <= 1

\* ------------------------------------------------------------------- C2
\* C2: a session opened while another one is Streaming never enters
\* Streaming, ends with a failure other than "device not found", and never
\* has a disconnect() call running on the driver of a session that is
\* still Streaming.
C2_SecondAttemptRejected ==
  \A t \in Sessions :
    sess[t].contended =>
      /\ ~Streaming(t)
      /\ Closed(t) => sess[t].status \notin { "404", "returned" }
      /\ ~ ( /\ sess[t].pc = "disconnecting"
             /\ \E s \in Sessions \ {t} : Streaming(s) /\ sess[t].drv = driver )

\* ------------------------------------------------------------------- C3
\* C3: no two driver calls are in flight at the same time, over the
\* streaming sessions and the CRUD requests.
C3_OneCallInFlight ==
  Cardinality({ s \in Sessions : SessionInCall(s) })
  + Cardinality({ r \in Requests : RequestInCall(r) }) <= 1

\* ------------------------------------------------------------------- C4
\* C4 as stated: a session that reached Streaming and closed has called
\* disconnect() exactly once over its lifetime, dispatched commands
\* included.
C4_DisconnectOnceInLifetime ==
  \A s \in Sessions :
    (Closed(s) /\ ReachedStreaming(s)) => DisconnectCalls(s) = 1

\* C4 as amended: a session calls disconnect() on its own account exactly
\* once when it leaves Streaming (never before, whatever the cause), and
\* every dispatched "disconnect" command adds one more call.
C4_DisconnectOnceOnClose ==
  \A s \in Sessions :
    /\ Streaming(s) => sess[s].ndisc = 0
    /\ (ReachedStreaming(s) /\ ~Streaming(s)) =>
         /\ sess[s].ndisc = 1
         /\ DisconnectCalls(s) = 1 + Cardinality(DisconnectCmds(s))

\* A session that dispatched "disconnect", was then closed by the client
\* and has returned.
C4_Witness ==
  \E s \in Sessions :
    /\ Closed(s) /\ sess[s].eof
    /\ DisconnectCmds(s) # {}
    /\ DisconnectCalls(s) = 2

\* ------------------------------------------------------------------- C5
\* C5: when connect() returns false the request ends with 404, the session
\* never is in Streaming, receives and dispatches nothing, and does not
\* call disconnect().
C5_ConnectFalse ==
  \A s \in Sessions :
    sess[s].conn = PyFalse =>
      /\ Closed(s)
      /\ sess[s].status = "404"
      /\ ~sess[s].eof
      /\ sess[s].recv = <<>>
      /\ sess[s].calls = <<>>
      /\ sess[s].sent = <<>>
      /\ DisconnectCalls(s) = 0

C5_Witness ==
  \E s \in Sessions : sess[s].conn = PyFalse /\ sess[s].status = "404"

\* ------------------------------------------------------------------- C6
\* C6: a command whose method is not a documented driver operation makes
\* dispatch invoke no member of the driver, and the session closes after
\* one disconnect().
C6_OnlyDocumentedInvoked ==
  \A s \in Sessions : \A i \in DOMAIN sess[s].recv :
    MethodOf(sess[s].recv[i]) \notin DocumentedOps =>
      /\ CallsFor(s, i) = {}
      /\ sess[s].pc \in { "disconnecting", "closed" }
      /\ sess[s].ndisc = 1

\* ------------------------------------------------------------------- C7
\* C7: in a session the replies are one per request and in request order:
\* reply i is the string form of the result of command i, it is sent
\* before the next message is received, and the replies sent number at
\* most the messages received and at least one less.
C7_RepliesInOrder ==
  \A s \in Sessions :
    /\ Len(sess[s].sent) <= Len(sess[s].recv)
    /\ Len(sess[s].sent) >= Len(sess[s].recv) - 1
    /\ sess[s].pc = "receiving" => Len(sess[s].sent) = Len(sess[s].recv)
    /\ \A i \in DOMAIN sess[s].sent :
         /\ Cardinality(CallsFor(s, i)) = 1
         /\ \A k \in CallsFor(s, i) :
              /\ sess[s].calls[k].op = MethodOf(sess[s].recv[i])
              /\ sess[s].sent[i] = Str(sess[s].calls[k].res)

\* Two commands with different results, answered in order.
C7_Witness ==
  \E s \in Sessions :
    /\ Len(sess[s].recv) = 2
    /\ sess[s].sent = << "False", "<driver>" >>

\* ------------------------------------------------------------------- C8
\* A message that names a documented operation with as many arguments as
\* the operation takes.
ValidCommand(m) ==
  /\ MethodOf(m) \in DocumentedOps
  /\ Len(ArgsOf(m)) = Arity(MethodOf(m))

\* C8: for a valid command i, dispatch invokes that operation once, with
\* the fields after the first as arguments in order; when the operation
\* has returned and the reply is written, the reply is the string form of
\* the return value ("True" for true) and the session is Streaming after
\* the write.
C8_ValidCommandState ==
  \A s \in Sessions : \A i \in DOMAIN sess[s].recv :
    ValidCommand(sess[s].recv[i]) =>
      /\ Cardinality(CallsFor(s, i)) = 1
      /\ \A k \in CallsFor(s, i) :
           /\ sess[s].calls[k].op = MethodOf(sess[s].recv[i])
           /\ sess[s].calls[k].args = ArgsOf(sess[s].recv[i])
           /\ i <= Len(sess[s].sent) =>
                /\ sess[s].calls[k].res \in Returns(sess[s].calls[k].op)
                /\ sess[s].calls[k].res = PyTrue => sess[s].sent[i] = "True"
                /\ sess[s].calls[k].res = PyFalse => sess[s].sent[i] = "False"
           /\ (sess[s].pc = "sending" /\ i = Len(sess[s].recv)) =>
                sess[s].calls[k].res \in Returns(sess[s].calls[k].op)

C8_ValidCommandStep ==
  \A s \in Sessions :
    Len(sess'[s].sent) > Len(sess[s].sent) =>
      /\ sess[s].pc = "sending"
      /\ sess'[s].pc = "receiving"
      /\ sess'[s].recv = sess[s].recv
      /\ sess'[s].calls = sess[s].calls

C8_ValidCommand == []C8_ValidCommandState /\ [][C8_ValidCommandStep]_vars

\* "play/3" was answered "True" and the session is Streaming.
C8_Witness ==
  \E s \in Sessions :
    /\ sess[s].recv = << <<"play", Slash, "3">> >>
    /\ sess[s].calls[1].args = << <<"3">> >>
    /\ sess[s].sent = << "True" >>
    /\ Streaming(s)

\* ------------------------------------------------------------------- C9
\* C9: a command that raises while being resolved or invoked gets no
\* reply, is the last message of its session, makes the session call
\* disconnect() and close, and leaves the server able to take the requests
\* of the other clients (as far as the bound on the work lets any arrive).
C9_ExceptionIsFatal ==
  \A s \in Sessions : \A i \in DOMAIN sess[s].recv :
    Failed(sess[s], i) =>
      /\ i = Len(sess[s].recv)
      /\ Len(sess[s].sent) = i - 1
      /\ \A k \in DOMAIN sess[s].calls : sess[s].calls[k].idx <= i
      /\ sess[s].pc \in { "disconnecting", "closed" }
      /\ sess[s].ndisc = 1
      /\ \A t \in Sessions \ {s} :
           /\ (sess[t].pc = "idle" /\ Work < MaxWork) => ENABLED Open(t, TRUE)
           /\ sess[t].pc = "receiving" => ENABLED ReceiveNone(t)

\* A session closed because the invoked operation raised.
C9_Witness ==
  \E s \in Sessions :
    /\ Closed(s)
    /\ sess[s].recv # <<>>
    /\ sess[s].calls # <<>>
    /\ LastRes(sess[s].calls) = Raise
    /\ sess[s].ndisc = 1

\* ------------------------------------------------------------------ C10
\* In this step a command of session s is found to have failed.
FailsNow(s) ==
  /\ Streaming(s)
  /\ sess'[s] # sess[s]
  /\ Len(sess'[s].recv) > 0
  /\ Failed(sess'[s], Len(sess'[s].recv))
  /\ (Len(sess[s].recv) = Len(sess'[s].recv) => ~Failed(sess[s], Len(sess[s].recv)))

\* C10 as stated: the failure of a dispatch is written back and the
\* session stays in Streaming.
C10_StreamSurvivesFailure ==
  [][\A s \in Sessions : FailsNow(s) => Streaming(s)']_vars

\* C10 as amended: a failed dispatch writes nothing back and takes the
\* session out of Streaming for good; from then on the session receives,
\* dispatches and answers nothing.
C10_FailureStep ==
  \A s \in Sessions :
    /\ FailsNow(s) =>
         /\ sess'[s].pc = "disconnecting"
         /\ sess'[s].sent = sess[s].sent
    /\ sess[s].pc \in { "disconnecting", "closed" } =>
         /\ sess'[s].pc \in { "disconnecting", "closed" }
         /\ sess'[s].recv = sess[s].recv
         /\ sess'[s].calls = sess[s].calls
         /\ sess'[s].sent = sess[s].sent

C10_FailureClosesStream == [][C10_FailureStep]_vars

\* The first command was answered, the second named no attribute of the
\* driver, and the session has closed.
C10_Witness ==
  \E s \in Sessions :
    /\ Closed(s)
    /\ Len(sess[s].recv) = 2
    /\ sess[s].recv[2] = <<"fooBar", Slash, "1">>
    /\ Len(sess[s].sent) = 1

\* ------------------------------------------------------------------ C11
\* C11: when connect() raises, the session logs the failure, the request
\* ends with a failure response, the session is Closed without having been
\* in Streaming, and nothing is received or dispatched.
C11_ConnectRaiseLogged ==
  \A s \in Sessions :
    sess[s].conn = Raise =>
      /\ Closed(s)
      /\ sess[s].status \notin { "none", "returned" }
      /\ sess[s].nlog >= 1
      /\ ~sess[s].eof
      /\ sess[s].recv = <<>>
      /\ sess[s].calls = <<>>

\* ------------------------------------------------------------------ C12
\* Once receive() has returned None the session is in its except clause or
\* closed, with disconnect() called once.
C12_CloseObserved ==
  \A s \in Sessions :
    sess[s].eof =>
      /\ sess[s].pc \in { "disconnecting", "closed" }
      /\ sess[s].ndisc = 1

\* From then on it receives, dispatches and answers nothing; the closure,
\* once observed, stays observed and a closed session stays closed.
C12_NothingAfterClose ==
  \A s \in Sessions :
    /\ Closed(s) => sess'[s] = sess[s]
    /\ sess[s].eof =>
      /\ sess'[s].eof
      /\ sess'[s].recv = sess[s].recv
      /\ sess'[s].calls = sess[s].calls
      /\ sess'[s].sent = sess[s].sent

\* C12: under fairness, a Streaming session whose client closes the
\* transport stops waiting for messages, calls disconnect() and reaches
\* Closed (the handler ends), and dispatches nothing after the closure.
\* As an observed closure and a closed session both last, "every session
\* that observes the closure is closed later" is "from some point on every
\* session that has observed the closure is closed".
C12_ClientCloseTerminates ==
  /\ []C12_CloseObserved
  /\ [][C12_NothingAfterClose]_vars
  /\ <>[](\A s \in Sessions : sess[s].eof => Closed(s))

\* A session that had dispatched a command, was closed by the client and
\* has ended.
C12_Witness ==
  \E s \in Sessions :
    /\ sess[s].eof
    /\ Closed(s)
    /\ sess[s].sent # <<>>
    /\ sess[s].ndisc = 1

\* ------------------------------------------------------------------ C13
\* C13: while a session is Streaming it alone holds the driver it
\* connected: no CRUD request has a connect() or disconnect() call, which
\* change the connection state, running on that driver, and no other
\* session has its disconnect() running on it.
C13_ExclusiveHold ==
  \A s \in Sessions :
    Streaming(s) =>
      /\ \A r \in Requests :
           ~ ( /\ RequestInCall(r)
               /\ crud[r].op \in { "connect", "disconnect" }
               /\ crud[r].drv = sess[s].cdrv )
      /\ \A t \in Sessions \ {s} :
           ~ ( /\ sess[t].pc = "disconnecting"
               /\ sess[t].drv = sess[s].cdrv )

\* ------------------------------------------------------------------ C14
\* C14: the record passed to install by a request addressed to slot S has
\* slot = S, for delete and for PUT.
C14_InstallSlotMatches ==
  \A r \in Requests :
    (RequestInCall(r) /\ crud[r].op = "install") =>
      crud[r].arg.slot = crud[r].slot

\* ------------------------------------------------------------------ C15
\* What the driver keeps in each slot: nothing known, the empty motion, or
\* an installed motion.
Stores == [Slots -> { "none", "empty", "body" }]

\* install(record) stores the record under the slot it carries.
Install(store, rec) == [store EXCEPT ![rec.slot] = rec.kind]

\* motion_delete at SLOT run to its end, from the slot that
\* _empty_motion carries and the driver's store: the new slot of
\* _empty_motion, the record passed, and the new store.
DeleteAt(slot, store, SLOT) ==
  LET rec == EmptyArg(SetSlot(slot, SLOT))
  IN [ slot |-> rec.slot, rec |-> rec, store |-> Install(store, rec) ]

C15_DeleteTwice ==
  \A SLOT \in Slots : \A store \in Stores :
    LET once  == DeleteAt(emptySlot, store, SLOT)
        twice == DeleteAt(once.slot, once.store, SLOT)
    IN /\ once.rec = [kind |-> "empty", slot |-> SLOT]
       /\ twice.rec = once.rec
       /\ twice.slot = once.slot
       /\ twice.store = once.store
       /\ once.store[SLOT] = "empty"

\* A step of motion_delete is the first part of DeleteAt.
C15_DeleteStep ==
  \A r \in Requests :
    (crud[r].pc = "idle" /\ crud'[r].handler = "motion_delete") =>
      /\ emptySlot' = DeleteAt(emptySlot, [n \in Slots |-> "none"], crud'[r].slot).slot
      /\ crud'[r].arg = DeleteAt(emptySlot, [n \in Slots |-> "none"], crud'[r].slot).rec
      /\ crud'[r].arg = [kind |-> "empty", slot |-> crud'[r].slot]

\* C15: delete at slot S is idempotent: after any operations, a second
\* delete at S passes the same record to install as the first, the empty
\* motion with slot = S, and leaves the same state.
C15_DeleteIdempotent == []C15_DeleteTwice /\ [][C15_DeleteStep]_vars

\* Two deletes at slot 1, one after the other, both with the record of
\* slot 1.
C15_Witness ==
  /\ \A r \in Requests :
       /\ RequestInCall(r)
       /\ crud[r].handler = "motion_delete"
       /\ crud[r].slot = 1
       /\ crud[r].arg = EmptyArg(1)
  /\ emptySlot = 1

\* ------------------------------------------------------------------ C16
\* The driver call each handler's row of the interface table names.
RowOf ==
  [ motion_get |-> "getMotion", motion_delete |-> "install",
    motion_put |-> "install", motion_play |-> "play", motion_stop |-> "stop",
    version_get |-> "getVersionInformation", connect |-> "connect",
    disconnect |-> "disconnect", upload |-> "upload" ]

C16_RowCall ==
  \A r \in Requests :
    RequestInCall(r) =>
      /\ crud[r].handler \in DOMAIN RowOf
      /\ crud[r].op = RowOf[crud[r].handler]

\* C16: a CRUD request makes the one driver call of its row and leaves the
\* router's state, _driver and _empty_motion, as it was.
C16_OneCallStateless ==
  []C16_RowCall /\ [][driver' = driver /\ emptySlot' = emptySlot]_vars

\* ------------------------------------------------------------------ C17
\* The record install reads while the call of request r is running:
\* _empty_motion is passed by reference, so it is read as it is now.
RecordSeen(r) ==
  IF crud[r].arg.kind = "empty" THEN EmptyArg(emptySlot) ELSE crud[r].arg

\* C17: the record the install call of a delete request reads carries the
\* slot of that request, whatever other delete requests do meanwhile.
C17_DeleteSeesOwnSlot ==
  \A r \in Requests :
    (RequestInCall(r) /\ crud[r].handler = "motion_delete") =>
      RecordSeen(r).slot = crud[r].slot

\* ------------------------------------------------------------------ C18
\* C18: every call a session makes after connect(), its dispatched
\* operations and its closing disconnect(), is on the instance it called
\* connect() on.
C18_SameInstance ==
  \A s \in Sessions :
    sess[s].pc \in { "invoking", "disconnecting" } =>
      sess[s].drv = sess[s].cdrv

\* ------------------------------------------------------------------ C19
\* C19: a request to /v2/cmdstream that is no WebSocket request ends with
\* status 400 and has made no driver call: no connect(), no disconnect(),
\* no dispatched operation.
C19_NotWebSocket ==
  \A s \in Sessions :
    (sess[s].pc # "idle" /\ ~sess[s].wsock) =>
      /\ Closed(s)
      /\ sess[s].status = "400"
      /\ sess[s].nconn = 0
      /\ sess[s].conn = Pending
      /\ sess[s].ndisc = 0
      /\ sess[s].calls = <<>>
      /\ sess[s].recv = <<>>
      /\ sess[s].drv = 0

\* A request without WebSocket was rejected while another session streams.
C19_Witness ==
  \E s \in Sessions :
    /\ sess[s].status = "400"
    /\ ~sess[s].wsock
    /\ \E t \in Sessions \ {s} : Streaming(t)

\* ------------------------------------------------------------------ C20
\* The last AbstractDriver instance among the arguments, or init if there
\* is none.
RECURSIVE LastDriver(_, _)
LastDriver(args, init) ==
  IF args = <<>> THEN init
  ELSE IF args[Len(args)] \in Drivers THEN args[Len(args)]
  ELSE LastDriver(SubSeq(args, 1, Len(args) - 1), init)

\* A call of set_driver with an AbstractDriver instance configures it; a
\* call with anything else leaves _driver as it is.
C20_SetDriverStep ==
  Len(setArgs') > Len(setArgs) =>
    LET d == setArgs'[Len(setArgs')]
    IN IF d \in Drivers THEN driver' = d ELSE driver' = driver

\* C20: _driver is its initial value or the last AbstractDriver instance
\* passed to set_driver, and only an AbstractDriver argument changes it.
C20_SetDriver ==
  /\ [](driver = LastDriver(setArgs, 1))
  /\ [][C20_SetDriverStep]_vars

\* set_driver(instance 2), then set_driver(an object that is no driver).
C20_Witness ==
  /\ setArgs = << 2, 0 >>
  /\ driver = 2
====
